---- MODULE Spec2Model ----
(***************************************************************************)
(* Concordium contract-schema deserializer (src/src/index.ts) driven by a  *)
(* Node.js Readable as in the README usage (src/unnamed/part_000):         *)
(*                                                                         *)
(*     stream.on('readable', () => {                                       *)
(*         const schema = deserialModule(stream);                          *)
(*         stream.destroy();                                               *)
(*     });                                                                 *)
(*                                                                         *)
(* The stream receives the bytes of the file in chunks (Deliver), learns   *)
(* of the end of the file (End), and runs the 'readable' listener          *)
(* (OnReadable), which calls one exported deserial function to completion. *)
(* The deserial functions are synchronous: they are operators over the     *)
(* state of the stream, and the listener is one action.                    *)
(***************************************************************************)
EXTENDS Integers, Sequences, FiniteSets, TLC

VARIABLES
    entry,      \* the exported deserial function the listener calls
    file,       \* the bytes of the underlying source, in order
    origin,     \* <<v>> when file encodes v (possibly followed by other bytes), else <<>>
    pos,        \* number of bytes of file pushed into the stream so far
    buf,        \* the stream's internal buffer: pushed and not yet read
    ended,      \* the stream has seen the end of the source (push(null))
    readable,   \* a 'readable' event is pending
    status,     \* "open" | "destroyed" (stream.destroy()) | "crashed" (listener threw)
    result      \* what the listener's deserial call did

vars == <<entry, file, origin, pos, buf, ended, readable, status, result>>

(***************************************************************************)
(* Bounds of the model.                                                    *)
(***************************************************************************)
\* longest sequence (fields, variants, map pairs, array elements) in a generated value
MaxElems == 2
\* longest run of arbitrary bytes after the first byte of a raw input
MaxRaw == 2
\* loop iterations followed within one call; beyond it the call is reported "cut"
MaxIter == 40

(***************************************************************************)
(* enum TypeTag, enum FieldsTag, enum OptionTag, enum SizeLength           *)
(***************************************************************************)
TypeTag_Unit == 0
TypeTag_Bool == 1
TypeTag_U8 == 2
TypeTag_U16 == 3
TypeTag_U32 == 4
TypeTag_U64 == 5
TypeTag_I8 == 6
TypeTag_I16 == 7
TypeTag_I32 == 8
TypeTag_I64 == 9
TypeTag_Amount == 10
TypeTag_AccountAddress == 11
TypeTag_ContractAddress == 12
TypeTag_Timestamp == 13
TypeTag_Duration == 14
TypeTag_Pair == 15
TypeTag_List == 16
TypeTag_Set == 17
TypeTag_Map == 18
TypeTag_Array == 19
TypeTag_Struct == 20
TypeTag_Enum == 21
TypeTag_String == 22
TypeTag_U128 == 23
TypeTag_I128 == 24
TypeTag_ContractName == 25
TypeTag_ReceiveName == 26

FieldsTag_Named == 0
FieldsTag_Unnamed == 1
FieldsTag_None == 2

OptionTag_None == 0
OptionTag_Some == 1

SizeLength_U8 == 0
SizeLength_U32 == 2
SizeLength_U64 == 3

\* the first group of case labels of deserialType's switch
LeafTags ==
    { TypeTag_Unit, TypeTag_Bool, TypeTag_U8, TypeTag_U16, TypeTag_U32,
      TypeTag_U64, TypeTag_U128, TypeTag_I8, TypeTag_I16, TypeTag_I32,
      TypeTag_I64, TypeTag_I128, TypeTag_Amount, TypeTag_AccountAddress,
      TypeTag_ContractAddress, TypeTag_Timestamp, TypeTag_Duration }

\* the last group of case labels of deserialType's switch
StringTags_only22 == { TypeTag_String }

StringTags == { TypeTag_String, TypeTag_ContractName, TypeTag_ReceiveName }

(***************************************************************************)
(* Values.  A JavaScript number read by readUInt32LE ranges over 0..2^32-1,*)
(* which is kept exactly as its two 16-bit halves.                         *)
(***************************************************************************)
U32(hi, lo) == [hi |-> hi, lo |-> lo]

\* i < len for a small loop counter i and a 32-bit len
LessThanU32(i, len) == len.hi > 0 \/ i < len.lo

null == [null |-> TRUE]
undefined == [undefined |-> TRUE]

\* thrown values: new Error(`unsupported ... tag: ${tag}`), and the TypeError /
\* RangeError raised by the Buffer accessors on null or on a short Buffer
NoError == [kind |-> "none", tag |-> -1]
JsError(kind, tag) == [kind |-> kind, tag |-> tag]

TagErrorKinds == {"unsupported type tag", "unsupported fields tag", "unsupported option tag"}
EndOfInputKinds == {"TypeError", "RangeError"}

(***************************************************************************)
(* The Readable handed to every deserial function, with the record of what *)
(* was done to it during one call: each source.read, each entry into       *)
(* deserialType / deserialFields, each loop iteration, each throw.         *)
(***************************************************************************)
Source(b, e) == [buf |-> b, ended |-> e, log |-> <<>>]

Event(ev, n, bytes, err) == [ev |-> ev, n |-> n, bytes |-> bytes, err |-> err]

Note(source, ev) ==
    [source EXCEPT !.log = Append(@, Event(ev, 0, <<>>, NoError))]

Return(v, source) == [st |-> "ok", val |-> v, err |-> NoError, source |-> source]

Throw(e, source) ==
    [st |-> "throw", val |-> undefined, err |-> e,
     source |-> [source EXCEPT !.log = Append(@, Event("throw", 0, <<>>, e))]]

\* the model stops following a loop after MaxIter iterations
Cut(source) == [st |-> "cut", val |-> undefined, err |-> NoError, source |-> source]

Take(s, n) == SubSeq(s, 1, n)
Drop(s, n) == SubSeq(s, n + 1, Len(s))

(***************************************************************************)
(* source.read(size) of a Node.js Readable in paused mode: size bytes when *)
(* the buffer holds that many; otherwise null, unless the stream has ended,*)
(* in which case whatever remains in the buffer (null when nothing does).  *)
(***************************************************************************)
read(source, size) ==
    LET got == IF Len(source.buf) >= size THEN Take(source.buf, size)
               ELSE IF source.ended THEN source.buf
               ELSE <<>>
        isNull == got = <<>>
    IN  [isNull |-> isNull,
         bytes  |-> got,
         source |-> [source EXCEPT
                        !.buf = Drop(@, Len(got)),
                        !.log = Append(@, Event("read", size, got, NoError))]]

RECURSIVE Apply(_, _)
RECURSIVE deserialType(_)
RECURSIVE deserialFields(_)
RECURSIVE ArrayLoop(_, _, _, _, _)
RECURSIVE MapLoop(_, _, _, _, _, _)
RECURSIVE Utf8Decode(_, _, _, _)

(***************************************************************************)
(* Statements run in order, and a throw in a callee leaves every caller:   *)
(* Then(r, K) continues with K on the callee's result r only if the callee *)
(* returned.                                                               *)
(***************************************************************************)
Then(r, K(_)) == IF r.st # "ok" THEN r ELSE K(r)

(***************************************************************************)
(* deserialUint8: source.read(1).readUInt8(0)                              *)
(***************************************************************************)
ReadUInt8(chunk) ==
    IF chunk.isNull THEN Throw(JsError("TypeError", -1), chunk.source)
    ELSE Return(chunk.bytes[1], chunk.source)

ReadUInt8_nullAsZero(chunk) ==
    IF chunk.isNull THEN Return(0, chunk.source)
    ELSE Return(chunk.bytes[1], chunk.source)

deserialUint8_nullAsZero(source) == ReadUInt8_nullAsZero(read(source, 1))

deserialUint8(source) == ReadUInt8(read(source, 1))

(***************************************************************************)
(* deserialUint32: source.read(4).readUInt32LE(0)                          *)
(***************************************************************************)
ByteAt(bytes, i) == IF i <= Len(bytes) THEN bytes[i] ELSE 0

ReadUInt32LE(chunk) ==
    IF chunk.isNull THEN Throw(JsError("TypeError", -1), chunk.source)
    ELSE IF Len(chunk.bytes) < 4 THEN Throw(JsError("RangeError", -1), chunk.source)
    ELSE Return(U32(chunk.bytes[3] + 256 * chunk.bytes[4],
                    chunk.bytes[1] + 256 * chunk.bytes[2]),
                chunk.source)

ReadUInt32LE_padded(chunk) ==
    IF chunk.isNull THEN Throw(JsError("TypeError", -1), chunk.source)
    ELSE Return(U32(ByteAt(chunk.bytes, 3) + 256 * ByteAt(chunk.bytes, 4),
                    ByteAt(chunk.bytes, 1) + 256 * ByteAt(chunk.bytes, 2)),
                chunk.source)

deserialUint32_padded(source) == ReadUInt32LE_padded(read(source, 4))

deserialUint32(source) == ReadUInt32LE(read(source, 4))

(***************************************************************************)
(* new TextDecoder().decode(uint8Array): the UTF-8 decoder of the Encoding *)
(* Standard, not fatal (a malformed sequence becomes U+FFFD) and with      *)
(* ignoreBOM false (a leading U+FEFF is removed from the output).  A       *)
(* string is the sequence of its code points.                              *)
(***************************************************************************)
ReplacementChar == 65533
ByteOrderMark == 65279

Utf8Start == [needed |-> 0, seen |-> 0, cp |-> 0, lower |-> 128, upper |-> 191]

Utf8Decode(bytes, i, d, out) ==
    IF i > Len(bytes)
    THEN IF d.needed # 0 THEN Append(out, ReplacementChar) ELSE out
    ELSE
      LET b == bytes[i] IN
      IF d.needed = 0 THEN
        IF b <= 127 THEN Utf8Decode(bytes, i + 1, d, Append(out, b))
        ELSE IF b >= 194 /\ b <= 223
        THEN Utf8Decode(bytes, i + 1, [d EXCEPT !.needed = 1, !.cp = b - 192], out)
        ELSE IF b >= 224 /\ b <= 239
        THEN Utf8Decode(bytes, i + 1,
                 [d EXCEPT !.needed = 2, !.cp = b - 224,
                           !.lower = IF b = 224 THEN 160 ELSE 128,
                           !.upper = IF b = 237 THEN 159 ELSE 191], out)
        ELSE IF b >= 240 /\ b <= 244
        THEN Utf8Decode(bytes, i + 1,
                 [d EXCEPT !.needed = 3, !.cp = b - 240,
                           !.lower = IF b = 240 THEN 144 ELSE 128,
                           !.upper = IF b = 244 THEN 143 ELSE 191], out)
        ELSE Utf8Decode(bytes, i + 1, d, Append(out, ReplacementChar))
      ELSE IF b < d.lower \/ b > d.upper
      THEN \* the byte is looked at again with the decoder reset
           Utf8Decode(bytes, i, Utf8Start, Append(out, ReplacementChar))
      ELSE
        LET cp == d.cp * 64 + (b - 128) IN
        IF d.seen + 1 # d.needed
        THEN Utf8Decode(bytes, i + 1,
                 [d EXCEPT !.cp = cp, !.seen = @ + 1, !.lower = 128, !.upper = 191], out)
        ELSE Utf8Decode(bytes, i + 1, Utf8Start, Append(out, cp))

TextDecoder_decode(bytes) ==
    LET text == Utf8Decode(bytes, 1, Utf8Start, <<>>) IN
    IF Len(text) > 0 /\ text[1] = ByteOrderMark THEN Drop(text, 1) ELSE text

(***************************************************************************)
(* A Deserial<T> passed to a combinator is named by a descriptor; Apply    *)
(* calls it.                                                               *)
(***************************************************************************)
Fn0(fn) == [fn |-> fn, args |-> <<>>]
Fn1(fn, a) == [fn |-> fn, args |-> <<a>>]
Fn2(fn, a, b) == [fn |-> fn, args |-> <<a, b>>]

(***************************************************************************)
(* deserialArrayFn(deserial)(source)                                       *)
(***************************************************************************)
ArrayLoop_inclusive(deserial, source, len, i, arr) ==
    IF ~(LessThanU32(i, len) \/ (len.hi = 0 /\ i = len.lo)) THEN Return(arr, source)
    ELSE IF i >= MaxIter THEN Cut(source)
    ELSE Then(Apply(deserial, Note(source, "iter")), LAMBDA e :
         ArrayLoop(deserial, e.source, len, i + 1, Append(arr, e.val)))

\* for (let i = 0; i < len; i++) { arr.push(deserial(source)); }  return arr
ArrayLoop(deserial, source, len, i, arr) ==
    IF ~LessThanU32(i, len) THEN Return(arr, source)
    ELSE IF i >= MaxIter THEN Cut(source)
    ELSE Then(Apply(deserial, Note(source, "iter")), LAMBDA e :
         ArrayLoop(deserial, e.source, len, i + 1, Append(arr, e.val)))

deserialArrayFn(deserial, source) ==
    Then(deserialUint32(source), LAMBDA len :
    ArrayLoop(deserial, len.source, len.val, 0, <<>>))

(***************************************************************************)
(* deserialString                                                          *)
(***************************************************************************)
deserialString(source) ==
    Then(deserialArrayFn(Fn0("deserialUint8"), source), LAMBDA bytes :
    Return(TextDecoder_decode(bytes.val), bytes.source))

(***************************************************************************)
(* deserialMapFn(deserialKey, deserialValue)(source).  obj starts as {}:   *)
(* no own properties, prototype Object.prototype.  obj[k] = v defines or   *)
(* overwrites the own property k, except that the key "__proto__" reaches  *)
(* the accessor inherited from Object.prototype, which, v being an object  *)
(* (every deserialValue used here returns one), makes v the prototype of   *)
(* obj and defines no own property.                                        *)
(***************************************************************************)
EmptyObject == [own |-> {}, proto |-> <<>>]

ProtoKey == <<95, 95, 112, 114, 111, 116, 111, 95, 95>>

SetProperty(obj, k, v) ==
    IF k = ProtoKey THEN [obj EXCEPT !.proto = <<v>>]
    ELSE [obj EXCEPT !.own = {p \in @ : p[1] # k} \cup {<<k, v>>}]

\* for (let i = 0; i < len; i++) { k = deserialKey(source); v = deserialValue(source); obj[k] = v }
MapLoop(deserialKey, deserialValue, source, len, i, obj) ==
    IF ~LessThanU32(i, len) THEN Return(obj, source)
    ELSE IF i >= MaxIter THEN Cut(source)
    ELSE Then(Apply(deserialKey, Note(source, "iter")), LAMBDA k :
         Then(Apply(deserialValue, k.source), LAMBDA v :
         MapLoop(deserialKey, deserialValue, v.source, len, i + 1,
                 SetProperty(obj, k.val, v.val))))

deserialMapFn(deserialKey, deserialValue, source) ==
    Then(deserialUint32(source), LAMBDA len :
    MapLoop(deserialKey, deserialValue, len.source, len.val, 0, EmptyObject))

(***************************************************************************)
(* deserialOptionFn(deserial)(source)                                      *)
(***************************************************************************)
Swallow(r) == IF r.st = "throw" THEN Return(null, r.source) ELSE r

deserialOptionFn_swallow(deserial, source) ==
    Then(deserialUint8(source), LAMBDA tag :
    IF tag.val = OptionTag_None THEN Return(null, tag.source)
    ELSE IF tag.val = OptionTag_Some THEN Swallow(Apply(deserial, tag.source))
    ELSE Throw(JsError("unsupported option tag", tag.val), tag.source))

deserialOptionFn(deserial, source) ==
    Then(deserialUint8(source), LAMBDA tag :
    IF tag.val = OptionTag_None THEN Return(null, tag.source)
    ELSE IF tag.val = OptionTag_Some THEN Apply(deserial, tag.source)
    ELSE Throw(JsError("unsupported option tag", tag.val), tag.source))

(***************************************************************************)
(* deserialTupleFn(deserialLeft, deserialRight)(source).  The two-element  *)
(* array [left, right] it returns is a record, so that TLC can tell it     *)
(* from the other values.                                                  *)
(***************************************************************************)
Tuple(left, right) == [left |-> left, right |-> right]

deserialTupleFn(deserialLeft, deserialRight, source) ==
    Then(Apply(deserialLeft, source), LAMBDA left :
    Then(Apply(deserialRight, left.source), LAMBDA right :
    Return(Tuple(left.val, right.val), right.source)))

(***************************************************************************)
(* deserialType                                                            *)
(***************************************************************************)
deserialType(source) ==
    Then(deserialUint8(Note(source, "type")), LAMBDA tag :
    IF tag.val \in LeafTags THEN Return([typeTag |-> tag.val], tag.source)
    ELSE IF tag.val = TypeTag_Pair THEN
        Then(deserialType(tag.source), LAMBDA ofLeft :
        Then(deserialType(ofLeft.source), LAMBDA ofRight :
        Return([typeTag |-> tag.val, ofLeft |-> ofLeft.val, ofRight |-> ofRight.val],
               ofRight.source)))
    ELSE IF tag.val \in {TypeTag_List, TypeTag_Set} THEN
        Then(deserialUint8(tag.source), LAMBDA sizeLength :
        Then(deserialType(sizeLength.source), LAMBDA of :
        Return([typeTag |-> tag.val, sizeLength |-> sizeLength.val, of |-> of.val],
               of.source)))
    ELSE IF tag.val = TypeTag_Map THEN
        Then(deserialUint8(tag.source), LAMBDA sizeLength :
        Then(deserialType(sizeLength.source), LAMBDA ofKeys :
        Then(deserialType(ofKeys.source), LAMBDA ofValues :
        Return([typeTag |-> tag.val, sizeLength |-> sizeLength.val,
                ofKeys |-> ofKeys.val, ofValues |-> ofValues.val], ofValues.source))))
    ELSE IF tag.val = TypeTag_Array THEN
        Then(deserialUint32(tag.source), LAMBDA size :
        Then(deserialType(size.source), LAMBDA of :
        Return([typeTag |-> tag.val, size |-> size.val, of |-> of.val], of.source)))
    ELSE IF tag.val = TypeTag_Struct THEN
        Then(deserialFields(tag.source), LAMBDA fields :
        Return([typeTag |-> tag.val, fields |-> fields.val], fields.source))
    ELSE IF tag.val = TypeTag_Enum THEN
        Then(deserialArrayFn(Fn2("deserialTupleFn", Fn0("deserialString"),
                                 Fn0("deserialFields")), tag.source), LAMBDA variants :
        Return([typeTag |-> tag.val, variants |-> variants.val], variants.source))
    ELSE IF tag.val \in StringTags THEN
        Then(deserialUint8(tag.source), LAMBDA sizeLength :
        Return([typeTag |-> tag.val, sizeLength |-> sizeLength.val], sizeLength.source))
    ELSE Throw(JsError("unsupported type tag", tag.val), tag.source))

(***************************************************************************)
(* deserialFields                                                          *)
(***************************************************************************)
deserialFields(source) ==
    Then(deserialUint8(Note(source, "fields")), LAMBDA tag :
    IF tag.val = FieldsTag_Named THEN
        Then(deserialArrayFn(Fn2("deserialTupleFn", Fn0("deserialString"),
                                 Fn0("deserialType")), tag.source), LAMBDA contents :
        Return([fieldsTag |-> tag.val, contents |-> contents.val], contents.source))
    ELSE IF tag.val = FieldsTag_Unnamed THEN
        Then(deserialArrayFn(Fn0("deserialType"), tag.source), LAMBDA contents :
        Return([fieldsTag |-> tag.val, contents |-> contents.val], contents.source))
    ELSE IF tag.val = FieldsTag_None THEN Return([fieldsTag |-> tag.val], tag.source)
    ELSE Throw(JsError("unsupported fields tag", tag.val), tag.source))

(***************************************************************************)
(* deserialContract: the properties of the object literal are evaluated in *)
(* the order written.                                                      *)
(***************************************************************************)
deserialContract_initFirst(source) ==
    Then(deserialOptionFn(Fn0("deserialType"), source), LAMBDA init :
    Then(deserialOptionFn(Fn0("deserialType"), init.source), LAMBDA state :
    Then(deserialMapFn(Fn0("deserialString"), Fn0("deserialType"), state.source),
         LAMBDA receive :
    Return([state |-> state.val, init |-> init.val, receive |-> receive.val],
           receive.source))))

deserialContract(source) ==
    Then(deserialOptionFn(Fn0("deserialType"), source), LAMBDA state :
    Then(deserialOptionFn(Fn0("deserialType"), state.source), LAMBDA init :
    Then(deserialMapFn(Fn0("deserialString"), Fn0("deserialType"), init.source),
         LAMBDA receive :
    Return([state |-> state.val, init |-> init.val, receive |-> receive.val],
           receive.source))))

(***************************************************************************)
(* deserialModule                                                          *)
(***************************************************************************)
deserialModule(source) ==
    deserialMapFn(Fn0("deserialString"), Fn0("deserialContract"), source)

Apply(deserial, source) ==
    CASE deserial.fn = "deserialUint8" -> deserialUint8(source)
      [] deserial.fn = "deserialUint32" -> deserialUint32(source)
      [] deserial.fn = "deserialString" -> deserialString(source)
      [] deserial.fn = "deserialType" -> deserialType(source)
      [] deserial.fn = "deserialFields" -> deserialFields(source)
      [] deserial.fn = "deserialContract" -> deserialContract(source)
      [] deserial.fn = "deserialModule" -> deserialModule(source)
      [] deserial.fn = "deserialArrayFn" -> deserialArrayFn(deserial.args[1], source)
      [] deserial.fn = "deserialOptionFn" -> deserialOptionFn(deserial.args[1], source)
      [] deserial.fn = "deserialMapFn" ->
             deserialMapFn(deserial.args[1], deserial.args[2], source)
      [] deserial.fn = "deserialTupleFn" ->
             deserialTupleFn(deserial.args[1], deserial.args[2], source)

(***************************************************************************)
(* The encoding the deserial functions read (concordium-std schema): what  *)
(* the bytes of a value are.  Encode(deserial, v) is the byte string that  *)
(* the writer emits for a value v meant for `deserial`.  A mapping is      *)
(* written as the sequence of its <<key, value>> pairs.                    *)
(***************************************************************************)
RECURSIVE Concat(_)
Concat(ss) == IF ss = <<>> THEN <<>> ELSE Head(ss) \o Concat(Tail(ss))

EncodeU32(u) == <<u.lo % 256, u.lo \div 256, u.hi % 256, u.hi \div 256>>

EncodeLen(n) == EncodeU32(U32(0, n))

Utf8Encode(cp) ==
    IF cp < 128 THEN <<cp>>
    ELSE IF cp < 2048 THEN <<192 + (cp \div 64), 128 + (cp % 64)>>
    ELSE IF cp < 65536
    THEN <<224 + (cp \div 4096), 128 + ((cp \div 64) % 64), 128 + (cp % 64)>>
    ELSE <<240 + (cp \div 262144), 128 + ((cp \div 4096) % 64),
           128 + ((cp \div 64) % 64), 128 + (cp % 64)>>

Utf8Bytes(str) == Concat([i \in 1..Len(str) |-> Utf8Encode(str[i])])

RECURSIVE Encode(_, _)
RECURSIVE EncodeType(_)
RECURSIVE EncodeFields(_)

EncodeType(t) ==
    IF t.typeTag \in LeafTags THEN <<t.typeTag>>
    ELSE IF t.typeTag = TypeTag_Pair
    THEN <<t.typeTag>> \o EncodeType(t.ofLeft) \o EncodeType(t.ofRight)
    ELSE IF t.typeTag \in {TypeTag_List, TypeTag_Set}
    THEN <<t.typeTag, t.sizeLength>> \o EncodeType(t.of)
    ELSE IF t.typeTag = TypeTag_Map
    THEN <<t.typeTag, t.sizeLength>> \o EncodeType(t.ofKeys) \o EncodeType(t.ofValues)
    ELSE IF t.typeTag = TypeTag_Array
    THEN <<t.typeTag>> \o EncodeU32(t.size) \o EncodeType(t.of)
    ELSE IF t.typeTag = TypeTag_Struct
    THEN <<t.typeTag>> \o EncodeFields(t.fields)
    ELSE IF t.typeTag = TypeTag_Enum
    THEN <<t.typeTag>> \o
         Encode(Fn1("deserialArrayFn",
                    Fn2("deserialTupleFn", Fn0("deserialString"), Fn0("deserialFields"))),
                t.variants)
    ELSE <<t.typeTag, t.sizeLength>>

EncodeFields(f) ==
    IF f.fieldsTag = FieldsTag_Named
    THEN <<f.fieldsTag>> \o
         Encode(Fn1("deserialArrayFn",
                    Fn2("deserialTupleFn", Fn0("deserialString"), Fn0("deserialType"))),
                f.contents)
    ELSE IF f.fieldsTag = FieldsTag_Unnamed
    THEN <<f.fieldsTag>> \o Encode(Fn1("deserialArrayFn", Fn0("deserialType")), f.contents)
    ELSE <<f.fieldsTag>>

Encode(deserial, v) ==
    CASE deserial.fn = "deserialUint8" -> <<v>>
      [] deserial.fn = "deserialUint32" -> EncodeU32(v)
      [] deserial.fn = "deserialString" ->
             LET bytes == Utf8Bytes(v) IN EncodeLen(Len(bytes)) \o bytes
      [] deserial.fn = "deserialType" -> EncodeType(v)
      [] deserial.fn = "deserialFields" -> EncodeFields(v)
      [] deserial.fn = "deserialArrayFn" ->
             EncodeLen(Len(v)) \o
             Concat([i \in 1..Len(v) |-> Encode(deserial.args[1], v[i])])
      [] deserial.fn = "deserialTupleFn" ->
             Encode(deserial.args[1], v.left) \o Encode(deserial.args[2], v.right)
      [] deserial.fn = "deserialOptionFn" ->
             IF v = null THEN <<OptionTag_None>>
             ELSE <<OptionTag_Some>> \o Encode(deserial.args[1], v)
      [] deserial.fn = "deserialMapFn" ->
             EncodeLen(Len(v)) \o
             Concat([i \in 1..Len(v) |->
                        Encode(deserial.args[1], v[i][1]) \o
                        Encode(deserial.args[2], v[i][2])])
      [] deserial.fn = "deserialContract" ->
             Encode(Fn1("deserialOptionFn", Fn0("deserialType")), v.state) \o
             Encode(Fn1("deserialOptionFn", Fn0("deserialType")), v.init) \o
             Encode(Fn2("deserialMapFn", Fn0("deserialString"), Fn0("deserialType")),
                    v.receive)
      [] deserial.fn = "deserialModule" ->
             Encode(Fn2("deserialMapFn", Fn0("deserialString"), Fn0("deserialContract")), v)

(***************************************************************************)
(* The inputs the model runs on: for each exported deserial function, the  *)
(* encodings of a bounded set of values (alone and followed by another     *)
(* byte), every proper prefix of such an encoding (a truncated file), and  *)
(* short arbitrary byte strings.                                           *)
(***************************************************************************)
SeqsUpTo(S, n) == UNION {[1..m -> S] : m \in 0..n}

Prefixes(bytes) == {Take(bytes, n) : n \in 0..(Len(bytes) - 1)}

RawBytes == {0, 1, 2, 255}

\* every first byte deserialType accepts, the first it does not, and the last byte value
TagBytes == (0..27) \cup {255}

\* "", "a", U+FEFF "a"
Names == {<<>>, <<97>>, <<ByteOrderMark, 97>>}

\* "a", "b", "__proto__"
KeyNames == {<<97>>, <<98>>, ProtoKey}

LeafTypes == {[typeTag |-> t] : t \in LeafTags}

StringTypes == {[typeTag |-> t, sizeLength |-> SizeLength_U32] : t \in StringTags}

InnerTypes ==
    {[typeTag |-> TypeTag_Unit], [typeTag |-> TypeTag_U8],
     [typeTag |-> TypeTag_String, sizeLength |-> SizeLength_U32]}

ValueTypes == {[typeTag |-> TypeTag_Unit], [typeTag |-> TypeTag_U8]}

Sizes == {U32(0, 0), U32(0, 258), U32(65535, 65535)}

FieldsNone == [fieldsTag |-> FieldsTag_None]

FieldsValues ==
    {FieldsNone}
    \cup {[fieldsTag |-> FieldsTag_Named, contents |-> c] :
             c \in SeqsUpTo({Tuple(n, t) : n \in Names, t \in ValueTypes}, MaxElems)}
    \cup {[fieldsTag |-> FieldsTag_Unnamed, contents |-> c] :
             c \in SeqsUpTo(ValueTypes, MaxElems)}

VariantFields ==
    {FieldsNone, [fieldsTag |-> FieldsTag_Unnamed, contents |-> <<[typeTag |-> TypeTag_U8]>>]}

NestedTypes ==
    {[typeTag |-> TypeTag_Pair, ofLeft |-> a, ofRight |-> b] :
        a \in InnerTypes, b \in InnerTypes}
    \cup {[typeTag |-> t, sizeLength |-> sl, of |-> a] :
             t \in {TypeTag_List, TypeTag_Set},
             sl \in {SizeLength_U8, SizeLength_U64}, a \in InnerTypes}
    \cup {[typeTag |-> TypeTag_Map, sizeLength |-> SizeLength_U32, ofKeys |-> a,
           ofValues |-> b] : a \in InnerTypes, b \in InnerTypes}
    \cup {[typeTag |-> TypeTag_Array, size |-> n, of |-> a] :
             n \in Sizes, a \in InnerTypes}
    \cup {[typeTag |-> TypeTag_Struct, fields |-> f] : f \in FieldsValues}
    \cup {[typeTag |-> TypeTag_Enum, variants |-> v] :
             v \in SeqsUpTo({Tuple(n, f) : n \in {<<97>>, <<98>>, <<ByteOrderMark, 97>>},
                                            f \in VariantFields}, MaxElems)}

\* types nested two levels deep
DeepTypes ==
    {[typeTag |-> TypeTag_Pair, ofLeft |-> a, ofRight |-> b] :
        a \in {[typeTag |-> TypeTag_Pair, ofLeft |-> [typeTag |-> TypeTag_Unit],
                ofRight |-> [typeTag |-> TypeTag_I128]],
               [typeTag |-> TypeTag_Array, size |-> U32(1, 2),
                of |-> [typeTag |-> TypeTag_Bool]]},
        b \in {[typeTag |-> TypeTag_List, sizeLength |-> SizeLength_U8,
                of |-> [typeTag |-> TypeTag_ReceiveName, sizeLength |-> SizeLength_U32]],
               [typeTag |-> TypeTag_Struct,
                fields |-> [fieldsTag |-> FieldsTag_Unnamed,
                            contents |-> <<[typeTag |-> TypeTag_Enum,
                                            variants |-> <<Tuple(<<98>>, FieldsNone)>>]>>]]}}

TypeValues == LeafTypes \cup StringTypes \cup NestedTypes \cup DeepTypes

OptionValues == {null} \cup ValueTypes

ContractValues ==
    {[state |-> st, init |-> in, receive |-> rc] :
        st \in OptionValues, in \in OptionValues,
        rc \in {<<>>, << <<<<97>>, [typeTag |-> TypeTag_Unit]>> >>,
                << <<<<97>>, [typeTag |-> TypeTag_Unit]>>,
                   <<<<97>>, [typeTag |-> TypeTag_U8]>> >>}}

ModuleContracts ==
    {[state |-> null, init |-> null, receive |-> <<>>],
     [state |-> [typeTag |-> TypeTag_U8], init |-> null,
      receive |-> << <<<<97>>, [typeTag |-> TypeTag_Unit]>> >>]}

ModuleValues == SeqsUpTo({<<97>>, <<98>>} \X ModuleContracts, MaxElems)

ArrayOfType == Fn1("deserialArrayFn", Fn0("deserialType"))
ArrayOfUint8 == Fn1("deserialArrayFn", Fn0("deserialUint8"))
OptionOfType == Fn1("deserialOptionFn", Fn0("deserialType"))
MapOfType == Fn2("deserialMapFn", Fn0("deserialString"), Fn0("deserialType"))

\* the values given to each deserial function
ValuesOf(deserial) ==
    CASE deserial = Fn0("deserialType") -> TypeValues
      [] deserial = Fn0("deserialFields") -> FieldsValues
      [] deserial = Fn0("deserialString") -> Names \cup KeyNames
      [] deserial = Fn0("deserialContract") -> ContractValues
      [] deserial = Fn0("deserialModule") -> ModuleValues
      [] deserial = ArrayOfType -> SeqsUpTo(InnerTypes, MaxElems)
      [] deserial = ArrayOfUint8 -> SeqsUpTo(RawBytes, MaxElems)
      [] deserial = OptionOfType -> OptionValues
      [] deserial = MapOfType -> SeqsUpTo(KeyNames \X ValueTypes, MaxElems)
      [] OTHER -> {}

\* a length prefix far larger than the file that carries it
HugeLength == <<255, 255, 255, 255>>

\* the arbitrary byte strings given to each deserial function
RawOf(deserial) ==
    CASE deserial = Fn0("deserialUint8") -> SeqsUpTo(RawBytes, MaxRaw)
      [] deserial = Fn0("deserialUint32") -> SeqsUpTo(RawBytes, MaxRaw + 3)
      [] deserial = Fn0("deserialType") ->
             {<<b>> \o t : b \in TagBytes, t \in SeqsUpTo(RawBytes, MaxRaw)}
      [] deserial = Fn0("deserialFields") ->
             {<<b>> \o t : b \in {0, 1, 2, 3, 255}, t \in SeqsUpTo(RawBytes, MaxRaw)}
      [] deserial = OptionOfType ->
             {<<b>> \o t : b \in RawBytes, t \in SeqsUpTo(RawBytes, MaxRaw)}
      [] deserial = Fn0("deserialContract") ->
             {<<b>> \o t : b \in RawBytes, t \in SeqsUpTo(RawBytes, MaxRaw)}
      [] deserial = Fn0("deserialModule") ->
             {HugeLength \o t : t \in SeqsUpTo(RawBytes, MaxRaw)}
             \cup {Encode(Fn0("deserialString"), <<97>>) \o t :
                      t \in SeqsUpTo(RawBytes, MaxRaw)}
             \cup {EncodeLen(1) \o Encode(Fn0("deserialString"), <<97>>) \o t :
                      t \in SeqsUpTo(RawBytes, MaxRaw)}
      [] deserial \in {ArrayOfType, ArrayOfUint8, MapOfType} ->
             {HugeLength \o t : t \in SeqsUpTo(RawBytes, MaxRaw)}
      [] OTHER -> {}

Entries ==
    {Fn0("deserialUint8"), Fn0("deserialUint32"), Fn0("deserialString"),
     Fn0("deserialType"), Fn0("deserialFields"), Fn0("deserialContract"),
     Fn0("deserialModule"), ArrayOfType, ArrayOfUint8, OptionOfType, MapOfType}

\* a byte that may follow an encoded value in the file
Trailers == {<<>>, <<TypeTag_I16>>}

InputsOf(d) ==
    {[origin |-> <<v>>, file |-> Encode(d, v) \o t] : v \in ValuesOf(d), t \in Trailers}
    \cup {[origin |-> <<>>, file |-> f] :
            f \in UNION {Prefixes(Encode(d, v)) : v \in ValuesOf(d)}}
    \cup {[origin |-> <<>>, file |-> f] : f \in RawOf(d)}

(***************************************************************************)
(* The state machine.                                                      *)
(***************************************************************************)
NoResult ==
    [st |-> "none", val |-> <<>>, err |-> NoError, log |-> <<>>, had |-> 0,
     atEnd |-> FALSE]

Init ==
    /\ \E d \in Entries : \E inp \in InputsOf(d) :
          /\ entry = d
          /\ file = inp.file
          /\ origin = inp.origin
    /\ pos = 0
    /\ buf = <<>>
    /\ ended = FALSE
    /\ readable = FALSE
    /\ status = "open"
    /\ result = NoResult

\* the underlying source pushes its next n bytes; the stream emits 'readable'
Deliver ==
    /\ status = "open"
    /\ ~ended
    /\ \E n \in 1..(Len(file) - pos) :
          /\ pos' = pos + n
          /\ buf' = buf \o SubSeq(file, pos + 1, pos + n)
    /\ readable' = TRUE
    /\ UNCHANGED <<entry, file, origin, ended, status, result>>

\* the underlying source is exhausted (push(null)); the stream emits 'readable'
End ==
    /\ status = "open"
    /\ ~ended
    /\ pos = Len(file)
    /\ ended' = TRUE
    /\ readable' = TRUE
    /\ UNCHANGED <<entry, file, origin, pos, buf, status, result>>

\* the 'readable' listener: const schema = deserial(stream); stream.destroy();
\* a throw leaves the listener (and the process) without reaching destroy()
OnReadable ==
    /\ status = "open"
    /\ readable
    /\ LET r == Apply(entry, Source(buf, ended)) IN
          /\ result' = [st |-> r.st,
                        val |-> IF r.st = "ok" THEN <<r.val>> ELSE <<>>,
                        err |-> r.err,
                        log |-> r.source.log,
                        had |-> Len(buf),
                        atEnd |-> ended]
          /\ buf' = r.source.buf
          /\ status' = CASE r.st = "ok" -> "destroyed"
                         [] r.st = "throw" -> "crashed"
                         [] OTHER -> "running"
    /\ readable' = FALSE
    /\ UNCHANGED <<entry, file, origin, pos, ended>>

Next == Deliver \/ End \/ OnReadable

Spec == Init /\ [][Next]_vars

(***************************************************************************)
(* What the listener's call did, read off the state.                       *)
(***************************************************************************)
Ran == result.st # "none"

\* number of bytes the call took out of the stream
Consumed == result.had - Len(buf)

\* the whole file was in the buffer when the call started
Whole == result.had = Len(file)

IsRead(e) == e.ev = "read"
IsThrow(e) == e.ev = "throw"
ShortRead(e) == IsRead(e) /\ Len(e.bytes) < e.n

\* the bytes the reads of a call returned, in the order of the reads
BytesRead(log) == Concat([i \in 1..Len(log) |-> log[i].bytes])

Count(log, evs) == Cardinality({i \in DOMAIN log : log[i].ev \in evs})

\* at least one byte is read between any two events of the kinds evs
ProgressBetween(log, evs) ==
    \A i \in DOMAIN log : \A j \in DOMAIN log :
        (i < j /\ log[i].ev \in evs /\ log[j].ev \in evs)
            => \E k \in (i + 1)..(j - 1) : IsRead(log[k]) /\ Len(log[k].bytes) >= 1

\* the length prefix at the head of the file
LengthPrefix == U32(file[3] + 256 * file[4], file[1] + 256 * file[2])

\* the string a written name is read back as
DecodedName(name) == TextDecoder_decode(Utf8Bytes(name))

(***************************************************************************)
(* Properties.                                                             *)
(***************************************************************************)

\* C1 (as claimed): whenever the bytes of the file, arriving in one single
\* delivery, decode to a value, the call returns that same value however the
\* file is split into deliveries.
ChunkBoundaryIndependence ==
    Ran => LET single == Apply(entry, Source(file, FALSE)) IN
           single.st = "ok" => (result.st = "ok" /\ result.val = <<single.val>>)

\* C2: a read that finds fewer than the n bytes it asked for in a stream that
\* has ended makes the call fail with the TypeError / RangeError of the Buffer
\* accessor, which is none of the unsupported-tag failures, and no value is
\* returned.
EndOfInputFails ==
    (Ran /\ result.atEnd) =>
        \A i \in DOMAIN result.log :
            ShortRead(result.log[i]) =>
                /\ result.st = "throw"
                /\ result.err.kind \in EndOfInputKinds
                /\ result.err.kind \notin TagErrorKinds
                /\ result.val = <<>>

\* C2 witness: deserialUint32 found 1 to 3 bytes left in an ended stream and threw
EndOfInputFails_witness ==
    /\ Ran /\ result.atEnd /\ result.st = "throw"
    /\ \E i \in DOMAIN result.log :
          ShortRead(result.log[i]) /\ result.log[i].n = 4 /\ Len(result.log[i].bytes) >= 1

\* C3 (as claimed): deserialType on a first byte b outside 0..24 throws
\* "unsupported type tag: b" having consumed exactly that byte, and on b in
\* 0..24 it does not reject b.
TypeTagOutside0to24Rejected ==
    (Ran /\ entry = Fn0("deserialType") /\ result.had >= 1) =>
        /\ file[1] \notin 0..24 =>
              /\ result.st = "throw"
              /\ result.err = JsError("unsupported type tag", file[1])
              /\ Consumed = 1
        /\ file[1] \in 0..24 => result.err # JsError("unsupported type tag", file[1])

\* C3 (amended): deserialType on a first byte b outside 0..26 throws
\* "unsupported type tag: b" having consumed exactly that byte, and on b in
\* 0..26 it does not reject b.
TypeTagOutside0to26Rejected ==
    (Ran /\ entry = Fn0("deserialType") /\ result.had >= 1) =>
        /\ file[1] \notin 0..26 =>
              /\ result.st = "throw"
              /\ result.err = JsError("unsupported type tag", file[1])
              /\ Consumed = 1
        /\ file[1] \in 0..26 => result.err # JsError("unsupported type tag", file[1])

\* C3 witness: the first byte 255 was rejected with bytes after it in the buffer
TypeTagRejected_witness ==
    /\ Ran /\ entry = Fn0("deserialType") /\ result.had >= 2
    /\ file[1] = 255 /\ result.st = "throw" /\ Consumed = 1

\* C4 (as claimed): the mapping deserialMapFn returns has exactly the decoded
\* keys of the pairs written as its keys, each with the value of the last pair
\* carrying that key.
LastWriteWins ==
    (Ran /\ entry = MapOfType /\ origin # <<>> /\ Whole) =>
        /\ result.st = "ok"
        /\ LET pairs == origin[1]
               obj == result.val[1]
           IN  /\ {p[1] : p \in obj.own} = {DecodedName(pairs[i][1]) : i \in DOMAIN pairs}
               /\ \A p \in obj.own : \E i \in DOMAIN pairs :
                     /\ DecodedName(pairs[i][1]) = p[1]
                     /\ pairs[i][2] = p[2]
                     /\ \A j \in DOMAIN pairs : j > i => DecodedName(pairs[j][1]) # p[1]

\* C5 (as claimed): deserialType on the encoding of a Type returns that Type.
RoundTrip ==
    (Ran /\ entry = Fn0("deserialType") /\ origin # <<>> /\ Whole) =>
        (result.st = "ok" /\ result.val = origin)

\* C6: a throw anywhere inside a call is the last thing the call does to the
\* stream: the call ends with that same throw, returns no value, and the
\* listener never reaches stream.destroy().
AllOrNothing ==
    Ran =>
        /\ \A i \in DOMAIN result.log :
              IsThrow(result.log[i]) =>
                  /\ i = Len(result.log)
                  /\ result.st = "throw"
                  /\ result.err = result.log[i].err
                  /\ result.val = <<>>
                  /\ status = "crashed"
        /\ result.st = "throw" =>
              (result.log # <<>> /\ IsThrow(result.log[Len(result.log)]))

\* C6 witness: deserialContract failed on a tag read inside an option or a type
AllOrNothing_witness ==
    /\ Ran /\ entry = Fn0("deserialContract")
    /\ result.st = "throw" /\ result.err.kind = "unsupported type tag"
    /\ Consumed >= 2

\* C7 (as claimed): while the stream has not ended, a read that needs more
\* bytes than have arrived, in a file that holds them all, does not fail and
\* does not return short.
WaitsForBytes ==
    (Ran /\ ~result.atEnd /\ origin # <<>>) =>
        /\ \A i \in DOMAIN result.log : ~ShortRead(result.log[i])
        /\ result.st = "throw" => result.err.kind \in TagErrorKinds

\* C8: deserialArrayFn reads the length L, calls deserial exactly L times and
\* returns the L results in order; with L = 0 it returns the empty array
\* having consumed the 4 length bytes only.
SequenceOf ==
    (Ran /\ entry \in {ArrayOfType, ArrayOfUint8}) =>
        /\ result.st = "ok" =>
              /\ LengthPrefix.hi = 0
              /\ Len(result.val[1]) = LengthPrefix.lo
              /\ Count(result.log, {"iter"}) = LengthPrefix.lo
              /\ origin # <<>> => result.val = origin
              /\ Consumed = Len(Encode(entry, result.val[1]))
        /\ (result.had >= 4 /\ LengthPrefix = U32(0, 0)) =>
              (result.st = "ok" /\ result.val = << <<>> >> /\ Consumed = 4)

\* C8 witness: two elements were decoded, with another byte behind them
SequenceOf_witness ==
    /\ Ran /\ entry = ArrayOfType /\ result.st = "ok"
    /\ Len(result.val[1]) = 2 /\ Len(buf) = 1

\* C8 witness of the empty case
SequenceOfEmpty_witness ==
    /\ Ran /\ entry = ArrayOfType /\ result.st = "ok"
    /\ result.val = << <<>> >> /\ Len(buf) = 1

\* C9: every call ends, returning or throwing, after consuming no more bytes
\* than the file has; between two entries into deserialType / deserialFields,
\* and between two iterations of the loops, at least one byte is consumed.
Terminates ==
    Ran =>
        /\ result.st \in {"ok", "throw"}
        /\ status \in {"destroyed", "crashed"}
        /\ Consumed <= Len(file)
        /\ ProgressBetween(result.log, {"type", "fields"})
        /\ ProgressBetween(result.log, {"iter"})
        /\ Count(result.log, {"iter"}) <= Consumed + 1

\* C9 witness: a length prefix of 2^32-1 before two elements in an ended stream
Terminates_witness ==
    /\ Ran /\ result.atEnd /\ entry = ArrayOfType
    /\ Len(file) = 6 /\ Take(file, 4) = HugeLength
    /\ result.st = "throw" /\ Count(result.log, {"iter"}) = 3

\* C10: the bytes the reads return are, in order, the first bytes of the file,
\* each once; the rest stays in the stream; a successful deserialType,
\* deserialContract or deserialModule has consumed exactly the encoding of the
\* value; deserialContract reads state, then init, then receive.
ForwardExact ==
    Ran =>
        /\ BytesRead(result.log) = Take(file, Consumed)
        /\ buf = SubSeq(file, Consumed + 1, result.had)
        /\ (result.st = "ok" /\ origin # <<>>
              /\ entry \in {Fn0("deserialType"), Fn0("deserialContract"),
                            Fn0("deserialModule")}) =>
              Consumed = Len(Encode(entry, origin[1]))
        /\ (result.st = "ok" /\ origin # <<>> /\ entry = Fn0("deserialContract")) =>
              /\ result.val[1].state = origin[1].state
              /\ result.val[1].init = origin[1].init
              /\ {p[1] : p \in result.val[1].receive.own} =
                     {origin[1].receive[i][1] : i \in DOMAIN origin[1].receive}

\* C10 witness: a contract with a state, no init and one receive function was
\* decoded and the byte behind it is still in the stream
ForwardExact_witness ==
    /\ Ran /\ entry = Fn0("deserialContract") /\ result.st = "ok" /\ origin # <<>>
    /\ result.val[1].state # null /\ result.val[1].init = null
    /\ result.val[1].receive.own # {}
    /\ buf = <<TypeTag_I16>>

(***************************************************************************)
(* Supporting checks: what remains of C1, C4, C5 and C7 where the code     *)
(* does behave as claimed.                                                 *)
(***************************************************************************)

\* with the whole file in the buffer the call does what a single delivery does
SingleDeliveryAgrees ==
    (Ran /\ Whole) =>
        LET single == Apply(entry, Source(file, result.atEnd)) IN
        /\ result.st = single.st
        /\ result.st = "ok" => result.val = <<single.val>>

\* last write wins among the keys other than "__proto__"
LastWriteWinsExceptProto ==
    (Ran /\ entry = MapOfType /\ origin # <<>> /\ Whole) =>
        /\ result.st = "ok"
        /\ LET pairs == origin[1]
               obj == result.val[1]
               kept == {i \in DOMAIN pairs : DecodedName(pairs[i][1]) # ProtoKey}
           IN  /\ {p[1] : p \in obj.own} = {DecodedName(pairs[i][1]) : i \in kept}
               /\ \A p \in obj.own : \E i \in kept :
                     /\ DecodedName(pairs[i][1]) = p[1]
                     /\ pairs[i][2] = p[2]
                     /\ \A j \in kept : j > i => DecodedName(pairs[j][1]) # p[1]

StartsWithBOM(name) == Len(name) >= 1 /\ name[1] = ByteOrderMark

RECURSIVE NoLeadingBOM(_)
NoLeadingBOM(t) ==
    IF t.typeTag = TypeTag_Enum
    THEN \A i \in DOMAIN t.variants :
            /\ ~StartsWithBOM(t.variants[i].left)
            /\ t.variants[i].right.fieldsTag = FieldsTag_Named =>
                  \A k \in DOMAIN t.variants[i].right.contents :
                      ~StartsWithBOM(t.variants[i].right.contents[k].left)
    ELSE IF t.typeTag = TypeTag_Struct
    THEN /\ t.fields.fieldsTag = FieldsTag_Named =>
              \A k \in DOMAIN t.fields.contents :
                  ~StartsWithBOM(t.fields.contents[k].left)
         /\ t.fields.fieldsTag = FieldsTag_Unnamed =>
              \A k \in DOMAIN t.fields.contents : NoLeadingBOM(t.fields.contents[k])
    ELSE IF t.typeTag = TypeTag_Pair
    THEN NoLeadingBOM(t.ofLeft) /\ NoLeadingBOM(t.ofRight)
    ELSE TRUE

\* the round trip of the types none of whose names starts with U+FEFF
RoundTripExceptBOM ==
    (Ran /\ entry = Fn0("deserialType") /\ origin # <<>> /\ Whole
         /\ NoLeadingBOM(origin[1])) =>
        (result.st = "ok" /\ result.val = origin)

====
